---- MODULE Spec2Model ----
(***************************************************************************)
(* Model of the stationarity assessment engine                             *)
(*   src/src/stationarity_clinic/assessment_and_recommendation/assessor.py *)
(*   src/src/stationarity_clinic/pipelines/assessment_and_recommendation/  *)
(*       nodes.py                                                          *)
(*                                                                         *)
(* Probabilities (p-values, alpha) are integers counted in units of 0.05,  *)
(* so that the default alpha 0.05 is 1 and the probability 1.0 is 20.      *)
(* Only the order of p_value and alpha matters to the code, and the order  *)
(* of the integers is the order of the numbers they stand for.             *)
(*                                                                         *)
(* The external routines adfuller and kpss of statsmodels are the          *)
(* environment: each call either returns its result tuple or raises.       *)
(***************************************************************************)
EXTENDS Integers, Sequences, FiniteSets, TLC

VARIABLES
    op,       \* the operation the caller has called, "idle" between calls
    args,     \* the arguments of that call
    outcome,  \* what the call gave its caller: Return(value) or Raise(error)
    calls     \* the invocations of adf_test/kpss_test/pp_test the call made, in order

vars == <<op, args, outcome, calls>>

\* ------------------------------------------------------------------ bounds
\* p-values of the external routines range over 0..MaxP and 1.0
MaxP == 2

\* ------------------------------------------------------------- constants
\* alpha: float = 0.05 (the unit of probability of the model)
DefaultAlpha == 1
\* the probability 1.0 in units of 0.05
One == 20 * DefaultAlpha
\* regression: str = 'c'
DefaultRegression == "c"

\* TestTypes enum
ADF == "adf"
KPSS == "kpss"
PP == "pp"

\* ------------------------------------------------------------ input sets
\* the four documented regression labels and one unrecognized label
Regressions == {"c", "ct", "ctt", "n", "x"}
\* regressions adfuller accepts (docstring of adf_test)
AdfRegressions == {"c", "ct", "ctt", "n"}
\* regressions kpss accepts (docstring of kpss_test)
KpssRegressions == {"c", "ct"}
\* regressions the PP test documents (docstring of pp_test)
PpRegressions == {"c", "ct", "n"}

PValues == (0 .. MaxP) \cup {One}
\* alpha is not validated anywhere: values outside (0,1) are inputs too
Alphas == (-1 .. (MaxP + 1)) \cup {One, One + 1}
Stats == {-3, 1}

\* critical value tables the external routines return (values in hundredths)
AdfCritical == ("1%" :> -350) @@ ("5%" :> -289) @@ ("10%" :> -258)
KpssCritical == ("10%" :> 35) @@ ("5%" :> 46) @@ ("2.5%" :> 57) @@ ("1%" :> 74)

\* ---------------------------------------------------------------- values
Return(v) == [kind |-> "return", value |-> v]
Raise(e) == [kind |-> "raise", error |-> e]
\* a test that consults no external routine
NoExternal == [kind |-> "none"]

\* dict.get(key, default)
Get(d, key, default) == IF key \in DOMAIN d THEN d[key] ELSE default

\* errors the external routines raise: a bad argument, a failed estimation
ExternalErrors == {"ValueError", "LinAlgError"}

\* adfuller(time_series, regression=regression, maxlag=max_lags):
\* (adfstat, pvalue, usedlag, nobs, critical values, icbest), or an error;
\* an unsupported regression is always an error
AdfullerOutcomes(regression) ==
    IF regression \in AdfRegressions
    THEN {Return(<<s, p, 0, 99, AdfCritical, 0>>) : s \in Stats, p \in PValues}
         \cup {Raise(e) : e \in ExternalErrors}
    ELSE {Raise("ValueError")}

\* kpss(time_series, regression=regression, nlags=nlags):
\* (kpss_stat, p_value, lags, critical values), or an error
KpssOutcomes(regression) ==
    IF regression \in KpssRegressions
    THEN {Return(<<s, p, 4, KpssCritical>>) : s \in Stats, p \in PValues}
         \cup {Raise(e) : e \in ExternalErrors}
    ELSE {Raise("ValueError")}

\* one invocation of a test method: its arguments, what the external routine
\* gave it, and what it gave run_all_tests
Call(test, regression, alpha, ext, out) ==
    [test |-> test, regression |-> regression, alpha |-> alpha,
     ext |-> ext, out |-> out]

\* ------------------------------------------------------------ Test Runner
\* mutant of AdfStationary: the boundary p_value = alpha counted as stationary
AdfStationary_le(p_value, alpha) == p_value <= alpha

\* stationary = p_value < alpha
AdfStationary(p_value, alpha) == p_value < alpha

\* mutant of KpssStationary: the complement of the unit-root comparison
KpssStationary_ge(p_value, alpha) == p_value >= alpha

\* stationary = p_value > alpha
KpssStationary(p_value, alpha) == p_value > alpha

\* stationary = p_value < alpha (pp_test)
PpStationary(p_value, alpha) == p_value < alpha

\* Assessor.adf_test; ext is what adfuller does on this call
AdfTest(ext, regression, alpha) ==
    IF ext.kind = "raise"
    THEN ext
    ELSE LET result == ext.value
             test_statistic == result[1]
             p_value == result[2]
             critical_values == result[5]
             stationary == AdfStationary(p_value, alpha)
         IN Return([test_statistic |-> test_statistic,
                    p_value |-> p_value,
                    critical_values |-> critical_values,
                    stationary |-> stationary])

\* mutant of KpssTest: an error of kpss is caught and turned into a
\* non-stationary verdict
KpssTest_swallow(ext, regression, alpha) ==
    IF ext.kind = "raise"
    THEN Return([test_statistic |-> 0, p_value |-> 0,
                 critical_values |-> <<>>, stationary |-> FALSE])
    ELSE Return([test_statistic |-> ext.value[1],
                 p_value |-> ext.value[2],
                 critical_values |-> ext.value[4],
                 stationary |-> KpssStationary(ext.value[2], alpha)])

\* Assessor.kpss_test; ext is what kpss does on this call
KpssTest(ext, regression, alpha) ==
    IF ext.kind = "raise"
    THEN ext
    ELSE LET result == ext.value
             test_statistic == result[1]
             p_value == result[2]
             critical_values == result[4]
             stationary == KpssStationary(p_value, alpha)
         IN Return([test_statistic |-> test_statistic,
                    p_value |-> p_value,
                    critical_values |-> critical_values,
                    stationary |-> stationary])

\* the object pp_test reads its statistic from: result = 1
PpResult == 1

\* result.stat / result.pvalue: an int has neither attribute
GetAttr(obj, name) ==
    IF obj \in Int THEN Raise("AttributeError") ELSE Return(obj[name])

\* Assessor.pp_test
PpTest(regression, alpha) ==
    LET result == PpResult
        stat == GetAttr(result, "stat")
    IN IF stat.kind = "raise"
       THEN stat
       ELSE LET pvalue == GetAttr(result, "pvalue")
            IN IF pvalue.kind = "raise"
               THEN pvalue
               ELSE Return([test_statistic |-> stat.value,
                            p_value |-> pvalue.value,
                            critical_values |-> <<>>,
                            stationary |-> PpStationary(pvalue.value, alpha)])

\* ---------------------------------------------------- Aggregator & Advisor
\* mutant of KpssRegression: the requested regression is passed on as it is
KpssRegression_same(regression) == regression

\* mutant of KpssRegression: KPSS always runs with constant-only
KpssRegression_c(regression) == "c"

\* kpss_regression = regression if regression in ['c', 'ct'] else 'c'
KpssRegression(regression) ==
    IF regression \in {"c", "ct"} THEN regression ELSE "c"

\* test_results = [test["stationary"] for test in results.values()]
\* stationary_count = sum(test_results)
\* stationary_count >= len(test_results) / 2
OverallStationary(results) ==
    LET test_results == {k \in DOMAIN results : results[k].stationary}
        stationary_count == Cardinality(test_results)
    IN 2 * stationary_count >= Cardinality(DOMAIN results)

\* Assessor.run_all_tests; adfExt and kpssExt are what adfuller and kpss do
\* when the call reaches them. Gives the call's outcome and the test
\* invocations it made.
RunAllTests(adfExt, kpssExt, alpha, regression) ==
    LET adf == AdfTest(adfExt, regression, alpha)
        c1 == Call(ADF, regression, alpha, adfExt, adf)
    IN IF adf.kind = "raise"
       THEN [out |-> adf, calls |-> <<c1>>]
       ELSE
       LET kpss_regression == KpssRegression(regression)
           kpss == KpssTest(kpssExt, kpss_regression, alpha)
           c2 == Call(KPSS, kpss_regression, alpha, kpssExt, kpss)
       IN IF kpss.kind = "raise"
          THEN [out |-> kpss, calls |-> <<c1, c2>>]
          ELSE
          LET pp == PpTest(regression, alpha)
              c3 == Call(PP, regression, alpha, NoExternal, pp)
          IN IF pp.kind = "raise"
             THEN [out |-> pp, calls |-> <<c1, c2, c3>>]
             ELSE
             LET results == (ADF :> adf.value) @@ (KPSS :> kpss.value)
                            @@ (PP :> pp.value)
                 overall == OverallStationary(results)
             IN [out |-> Return(results @@ ("overall_stationary" :> overall)),
                 calls |-> <<c1, c2, c3>>]

\* the recommendations _generate_summary appends when not is_stationary
NonStationaryRecommendations ==
    << "Consider differencing the time series.",
       "Log transformation may help stabilize variance.",
       "Seasonal adjustment might be necessary if seasonal patterns are present.",
       "Check for structural breaks or regime changes in the data." >>

\* the recommendations of _generate_summary when is_stationary
StationaryRecommendations == << "Time series appears to be stationary." >>

\* mutant of IsStationary: a tie is judged non-stationary
IsStationary_strict(stationary_count, total_configs) ==
    2 * stationary_count > total_configs

\* is_stationary = stationary_count >= total_configs / 2
IsStationary(stationary_count, total_configs) ==
    2 * stationary_count >= total_configs

\* Assessor._generate_summary. Every value of detailed_results is a mapping
\* (isinstance(config, dict) holds); the configurations counted are those
\* that have the key overall_stationary.
GenerateSummary(detailed_results) ==
    LET configs == {k \in DOMAIN detailed_results :
                       "overall_stationary" \in DOMAIN detailed_results[k]}
        stationary_count ==
            Cardinality({k \in configs :
                            Get(detailed_results[k], "overall_stationary", FALSE)})
        total_configs == Cardinality(configs)
        is_stationary == IsStationary(stationary_count, total_configs)
        recommendations ==
            IF ~is_stationary THEN NonStationaryRecommendations ELSE <<>>
    IN [is_stationary |-> is_stationary,
        stationary_count |-> stationary_count,
        total_configurations |-> total_configs,
        recommendations |-> IF ~is_stationary THEN recommendations
                            ELSE StationaryRecommendations]

\* regression_options = {"constant": "c", "constant_trend": "ct"}, in order
RegressionOptions == << <<"constant", "c">>, <<"constant_trend", "ct">> >>

\* Assessor.detailed_assessment; ext1 and ext2 are what adfuller and kpss do
\* in the first and in the second configuration: [adf |-> .., kpss |-> ..]
DetailedAssessment(ext1, ext2, alpha) ==
    LET first == RunAllTests(ext1.adf, ext1.kpss, alpha, RegressionOptions[1][2])
    IN IF first.out.kind = "raise"
       THEN first
       ELSE
       LET second == RunAllTests(ext2.adf, ext2.kpss, alpha,
                                 RegressionOptions[2][2])
           made == first.calls \o second.calls
       IN IF second.out.kind = "raise"
          THEN [out |-> second.out, calls |-> made]
          ELSE
          LET detailed_results ==
                  (RegressionOptions[1][1] :> first.out.value)
                  @@ (RegressionOptions[2][1] :> second.out.value)
              summary == GenerateSummary(detailed_results)
          IN [out |-> Return(detailed_results @@ ("summary" :> summary)),
              calls |-> made]

\* ---------------------------------------------------------- pipeline nodes
\* nodes.assess_stationarity
AssessStationarity(ext1, ext2, parameters) ==
    LET alpha == Get(parameters, "alpha", DefaultAlpha)
        detailed == Get(parameters, "detailed", FALSE)
    IN IF detailed
       THEN DetailedAssessment(ext1, ext2, alpha)
       ELSE RunAllTests(ext1.adf, ext1.kpss, alpha, DefaultRegression)

\* the list extract_recommendations gives a non-stationary simple assessment
SimpleNonStationaryRecommendations ==
    << "Consider differencing the time series.",
       "Log transformation may help stabilize variance.",
       "Seasonal adjustment might be necessary if seasonal patterns are present.",
       "Check for structural breaks or regime changes in the data." >>

\* the list extract_recommendations gives a stationary simple assessment
SimpleStationaryRecommendations == << "Time series appears to be stationary." >>

\* mutant of ExtractRecommendations: the test of overall_stationary has lost
\* its negation
ExtractRecommendations_inverted(assessment_results) ==
    IF "summary" \in DOMAIN assessment_results
    THEN Get(assessment_results["summary"], "recommendations", <<>>)
    ELSE IF Get(assessment_results, "overall_stationary", TRUE)
         THEN SimpleNonStationaryRecommendations
         ELSE SimpleStationaryRecommendations

\* nodes.extract_recommendations
ExtractRecommendations(assessment_results) ==
    IF "summary" \in DOMAIN assessment_results
    THEN Get(assessment_results["summary"], "recommendations", <<>>)
    ELSE IF ~Get(assessment_results, "overall_stationary", TRUE)
         THEN SimpleNonStationaryRecommendations
         ELSE SimpleStationaryRecommendations

\* ------------------------------------------------------------ environment
\* an external routine the call never reaches
Unused == [kind |-> "unused"]

\* what adfuller and kpss do during one run_all_tests(alpha, regression):
\* kpss is reached only when adf_test returns
ExternalFor(alpha, regression) ==
    UNION { { [adf |-> a, kpss |-> k] :
                k \in IF AdfTest(a, regression, alpha).kind = "raise"
                      THEN {Unused}
                      ELSE KpssOutcomes(KpssRegression(regression)) } :
            a \in AdfullerOutcomes(regression) }

NoExternalRun == [adf |-> Unused, kpss |-> Unused]

\* what adfuller and kpss do in the second configuration of
\* detailed_assessment, reached only when the first one returns
ExternalForSecond(ext1, alpha) ==
    IF RunAllTests(ext1.adf, ext1.kpss, alpha, RegressionOptions[1][2]).out.kind
           = "raise"
    THEN {NoExternalRun}
    ELSE ExternalFor(alpha, RegressionOptions[2][2])

\* TestResult mappings of the three tests, as inputs of the advisor functions
TestResultInputs(test) ==
    { [test_statistic |-> 1, p_value |-> p,
       critical_values |-> IF test = ADF THEN AdfCritical
                           ELSE IF test = KPSS THEN KpssCritical ELSE <<>>,
       stationary |-> IF test = KPSS THEN KpssStationary(p, DefaultAlpha)
                      ELSE IF test = ADF THEN AdfStationary(p, DefaultAlpha)
                      ELSE PpStationary(p, DefaultAlpha)] : p \in PValues }

\* AssessmentResult mappings, as inputs of the advisor functions
AssessmentInputs ==
    { LET results == (ADF :> a) @@ (KPSS :> k) @@ (PP :> p)
      IN results @@ ("overall_stationary" :> OverallStationary(results)) :
      a \in TestResultInputs(ADF), k \in TestResultInputs(KPSS),
      p \in TestResultInputs(PP) }

\* the two configurations _generate_summary is given by detailed_assessment
DetailedInputs ==
    { (RegressionOptions[1][1] :> c1) @@ (RegressionOptions[2][1] :> c2) :
      c1 \in AssessmentInputs, c2 \in AssessmentInputs }

\* ----------------------------------------------------------------- actions
\* Assessor(): self.logger = logging.getLogger(__name__); no other state.
\* The caller has no call under way.
Init ==
    /\ op = "idle"
    /\ args = <<>>
    /\ outcome = Return(<<>>)
    /\ calls = <<>>

\* the caller takes the outcome of its call and is ready for the next one
Receive ==
    /\ op # "idle"
    /\ op' = "idle"
    /\ args' = <<>>
    /\ outcome' = Return(<<>>)
    /\ calls' = <<>>

CallAdfTest ==
    /\ op = "idle"
    /\    \E regression \in Regressions, alpha \in Alphas :
      \E ext \in AdfullerOutcomes(regression) :
        LET out == AdfTest(ext, regression, alpha)
        IN /\ op' = "adf_test"
           /\ args' = [regression |-> regression, alpha |-> alpha]
           /\ outcome' = out
           /\ calls' = << Call(ADF, regression, alpha, ext, out) >>

CallKpssTest ==
    /\ op = "idle"
    /\    \E regression \in Regressions, alpha \in Alphas :
      \E ext \in KpssOutcomes(regression) :
        LET out == KpssTest(ext, regression, alpha)
        IN /\ op' = "kpss_test"
           /\ args' = [regression |-> regression, alpha |-> alpha]
           /\ outcome' = out
           /\ calls' = << Call(KPSS, regression, alpha, ext, out) >>

CallPpTest ==
    /\ op = "idle"
    /\    \E regression \in Regressions, alpha \in Alphas :
        LET out == PpTest(regression, alpha)
        IN /\ op' = "pp_test"
           /\ args' = [regression |-> regression, alpha |-> alpha]
           /\ outcome' = out
           /\ calls' = << Call(PP, regression, alpha, NoExternal, out) >>

CallRunAllTests ==
    /\ op = "idle"
    /\    \E regression \in Regressions, alpha \in Alphas :
      \E ext \in ExternalFor(alpha, regression) :
        LET r == RunAllTests(ext.adf, ext.kpss, alpha, regression)
        IN /\ op' = "run_all_tests"
           /\ args' = [regression |-> regression, alpha |-> alpha]
           /\ outcome' = r.out
           /\ calls' = r.calls

CallDetailedAssessment ==
    /\ op = "idle"
    /\    \E alpha \in Alphas :
      \E ext1 \in ExternalFor(alpha, RegressionOptions[1][2]) :
        \E ext2 \in ExternalForSecond(ext1, alpha) :
          LET r == DetailedAssessment(ext1, ext2, alpha)
          IN /\ op' = "detailed_assessment"
             /\ args' = [alpha |-> alpha]
             /\ outcome' = r.out
             /\ calls' = r.calls

\* the configuration record: each recognized option is present or absent
CallAssessStationarity ==
    /\ op = "idle"
    /\    \E a \in {<<>>} \cup {[alpha |-> x] : x \in Alphas},
       d \in {<<>>} \cup {[detailed |-> x] : x \in BOOLEAN},
       g \in {<<>>} \cup {[regression |-> x] : x \in Regressions} :
      LET parameters == a @@ d @@ g
          alpha == Get(parameters, "alpha", DefaultAlpha)
          detailed == Get(parameters, "detailed", FALSE)
      IN \E ext1 \in ExternalFor(alpha, IF detailed THEN RegressionOptions[1][2]
                                        ELSE DefaultRegression) :
           \E ext2 \in IF detailed THEN ExternalForSecond(ext1, alpha)
                       ELSE {NoExternalRun} :
             LET r == AssessStationarity(ext1, ext2, parameters)
             IN /\ op' = "assess_stationarity"
                /\ args' = [parameters |-> parameters]
                /\ outcome' = r.out
                /\ calls' = r.calls

CallGenerateSummary ==
    /\ op = "idle"
    /\    \E detailed_results \in DetailedInputs :
        /\ op' = "_generate_summary"
        /\ args' = [detailed_results |-> detailed_results]
        /\ outcome' = Return(GenerateSummary(detailed_results))
        /\ calls' = <<>>

\* extract_recommendations on an AssessmentResult
CallExtractSimple ==
    /\ op = "idle"
    /\    \E assessment_results \in AssessmentInputs :
        /\ op' = "extract_recommendations"
        /\ args' = [assessment_results |-> assessment_results]
        /\ outcome' = Return(ExtractRecommendations(assessment_results))
        /\ calls' = <<>>

\* extract_recommendations on a DetailedAssessmentResult
CallExtractDetailed ==
    /\ op = "idle"
    /\    \E detailed_results \in DetailedInputs :
        LET assessment_results ==
                detailed_results
                @@ ("summary" :> GenerateSummary(detailed_results))
        IN /\ op' = "extract_recommendations"
           /\ args' = [assessment_results |-> assessment_results]
           /\ outcome' = Return(ExtractRecommendations(assessment_results))
           /\ calls' = <<>>

Next ==
    \/ CallAdfTest
    \/ CallKpssTest
    \/ CallPpTest
    \/ CallRunAllTests
    \/ CallDetailedAssessment
    \/ CallAssessStationarity
    \/ CallGenerateSummary
    \/ CallExtractSimple
    \/ CallExtractDetailed
    \/ Receive

Spec == Init /\ [][Next]_vars

\* ------------------------------------------------------------------ claims
\* alpha lies in the open interval (0, 1)
ValidAlpha(alpha) == 0 < alpha /\ alpha < One

\* the operations that run the three tests together
AggregateOps == {"run_all_tests", "detailed_assessment", "assess_stationarity"}

\* every external routine the call reached returned a result
ExternalReturned == \A i \in DOMAIN calls : calls[i].ext.kind # "raise"

\* the call is run_all_tests, or assess_stationarity with detailed = false
SimpleAssessmentCall ==
    \/ op = "run_all_tests"
    \/ /\ op = "assess_stationarity"
       /\ ~Get(args.parameters, "detailed", FALSE)

\* the alpha the call under way runs its tests with
AlphaOfCall ==
    IF op = "assess_stationarity"
    THEN Get(args.parameters, "alpha", DefaultAlpha)
    ELSE args.alpha

\* C1: for a valid alpha and external routines that return, run_all_tests
\* (and assess_stationarity with detailed = false) returns a mapping whose
\* keys are exactly adf, kpss, pp and overall_stationary.
C1_RunAllTestsReturnsFourKeys ==
    (SimpleAssessmentCall /\ ValidAlpha(AlphaOfCall) /\ ExternalReturned)
    => /\ outcome.kind = "return"
       /\ DOMAIN outcome.value = {"adf", "kpss", "pp", "overall_stationary"}

\* C3: whenever the external routine returns p_value, adf_test sets
\* stationary to p_value < alpha and kpss_test sets it to p_value > alpha.
C3_ComparisonDirections ==
    \A i \in DOMAIN calls :
        LET c == calls[i]
        IN (c.test \in {"adf", "kpss"} /\ c.ext.kind = "return")
           => /\ c.out.kind = "return"
              /\ c.out.value.p_value = c.ext.value[2]
              /\ c.test = "adf"
                 => (c.out.value.stationary <=> c.ext.value[2] < c.alpha)
              /\ c.test = "kpss"
                 => (c.out.value.stationary <=> c.ext.value[2] > c.alpha)

\* C3 witness: one run_all_tests in which both routines return a p_value
\* below alpha: adf_test says stationary and kpss_test says non-stationary.
C3_Witness ==
    /\ op = "run_all_tests"
    /\ Len(calls) >= 2
    /\ calls[1].ext.kind = "return" /\ calls[2].ext.kind = "return"
    /\ calls[1].ext.value[2] < args.alpha
    /\ calls[2].ext.value[2] < args.alpha
    /\ calls[1].out.value.stationary
    /\ ~calls[2].out.value.stationary

\* C4: pp_test with a supported regression returns a TestResult of four
\* fields with stationary = (p_value < alpha) and no critical values.
C4_PpTestReturnsTestResult ==
    (op = "pp_test" /\ args.regression \in PpRegressions)
    => /\ outcome.kind = "return"
       /\ DOMAIN outcome.value
              = {"test_statistic", "p_value", "critical_values", "stationary"}
       /\ outcome.value.stationary <=> outcome.value.p_value < args.alpha
       /\ outcome.value.critical_values = <<>>

\* the summary of a detailed result: of a direct call of _generate_summary,
\* or of a detailed_assessment that returned
SummaryProduced ==
    \/ op = "_generate_summary"
    \/ op = "detailed_assessment" /\ outcome.kind = "return"

SummaryOf == IF op = "_generate_summary" THEN outcome.value
             ELSE outcome.value["summary"]

ConfigurationsOf == IF op = "_generate_summary" THEN args.detailed_results
                    ELSE outcome.value

\* C6: summary.stationary_count is the number of the two configurations
\* whose overall_stationary is true, and summary.is_stationary holds iff
\* that count is at least 1 (false only when both are non-stationary).
C6_SummaryMajority ==
    SummaryProduced
    => LET d == ConfigurationsOf
           s == SummaryOf
           n == Cardinality({k \in {"constant", "constant_trend"} :
                                d[k]["overall_stationary"]})
       IN /\ s.stationary_count = n
          /\ s.is_stationary <=> n >= 1
          /\ ~s.is_stationary
             <=> (~d["constant"]["overall_stationary"]
                  /\ ~d["constant_trend"]["overall_stationary"])

\* C6 witness: a 1-1 tie between the two configurations, judged stationary.
C6_Witness ==
    /\ op = "_generate_summary"
    /\ args.detailed_results["constant"]["overall_stationary"]
    /\ ~args.detailed_results["constant_trend"]["overall_stationary"]
    /\ outcome.value.stationary_count = 1
    /\ outcome.value.is_stationary

\* the verdict of the mapping given to extract_recommendations
VerdictOf(assessment_results) ==
    IF "summary" \in DOMAIN assessment_results
    THEN assessment_results["summary"].is_stationary
    ELSE assessment_results["overall_stationary"]

\* C7: extract_recommendations gives exactly the one stationary message for
\* a stationary verdict and exactly the four suggestions (differencing, log
\* transformation, seasonal adjustment, structural breaks), in that order,
\* for a non-stationary one, whichever shape the input has.
C7_RecommendationsByVerdict ==
    op = "extract_recommendations"
    => /\ outcome.kind = "return"
       /\ outcome.value =
            IF VerdictOf(args.assessment_results)
            THEN << "Time series appears to be stationary." >>
            ELSE << "Consider differencing the time series.",
                    "Log transformation may help stabilize variance.",
                    "Seasonal adjustment might be necessary if seasonal patterns are present.",
                    "Check for structural breaks or regime changes in the data." >>

\* C7 witness: a detailed result judged non-stationary gives four items.
C7_Witness ==
    /\ op = "extract_recommendations"
    /\ "summary" \in DOMAIN args.assessment_results
    /\ ~args.assessment_results["summary"].is_stationary
    /\ Len(outcome.value) = 4

\* a test invocation failed: its external routine raised, or it raised
Failed(c) == c.ext.kind = "raise" \/ c.out.kind = "raise"

FailureOf(c) == IF c.ext.kind = "raise" THEN c.ext.error ELSE c.out.error

\* C8: when a test fails during run_all_tests or detailed_assessment, the
\* call raises that very error, returns no result, and runs no further test.
C8_ErrorsPropagate ==
    op \in AggregateOps
    => \A i \in DOMAIN calls :
          Failed(calls[i])
          => /\ i = Len(calls)
             /\ outcome = Raise(FailureOf(calls[i]))

\* C8 witness: kpss fails in the first configuration of detailed_assessment;
\* the call raises the error of kpss and the PP test is not run.
C8_Witness ==
    /\ op = "detailed_assessment"
    /\ Len(calls) = 2
    /\ calls[2].test = "kpss"
    /\ calls[2].ext = Raise("LinAlgError")
    /\ outcome = Raise("LinAlgError")

\* the regression the call under way asks for
RegressionOfCall ==
    IF op = "assess_stationarity"
    THEN Get(args.parameters, "regression", DefaultRegression)
    ELSE IF op = "detailed_assessment" THEN DefaultRegression
    ELSE args.regression

\* C9: with alpha outside (0,1) or an unrecognized regression label the call
\* raises ConfigurationError before any test is executed.
C9_InvalidConfigurationRejected ==
    (/\ op \in AggregateOps
     /\ \/ ~ValidAlpha(AlphaOfCall)
        \/ RegressionOfCall \notin {"c", "ct", "ctt", "n"})
    => /\ outcome = Raise("ConfigurationError")
       /\ calls = <<>>

\* C10: run_all_tests gives the ADF and PP tests the requested regression,
\* gives KPSS the requested one when it is 'c' or 'ct' and 'c' otherwise
\* (so that KPSS is never asked for a regression it rejects), and gives all
\* three tests the same alpha.
C10_RegressionPerTest ==
    op = "run_all_tests"
    => /\ Len(calls) >= 1
       /\ \A i \in DOMAIN calls :
            /\ calls[i].test = <<"adf", "kpss", "pp">>[i]
            /\ calls[i].alpha = args.alpha
            /\ calls[i].regression =
                  IF i = 2
                  THEN (IF args.regression \in {"c", "ct"}
                        THEN args.regression ELSE "c")
                  ELSE args.regression
       /\ calls[1].out.kind = "return" => Len(calls) >= 2
       /\ Len(calls) >= 2
          => /\ calls[2].regression \in {"c", "ct"}
             /\ calls[2].out.kind = "return" => Len(calls) = 3

\* C10 witness: regression 'ctt' is requested; KPSS runs with 'c' and
\* returns, and the PP test is invoked with 'ctt'.
C10_Witness ==
    /\ op = "run_all_tests"
    /\ args.regression = "ctt"
    /\ Len(calls) = 3
    /\ calls[2].regression = "c"
    /\ calls[2].out.kind = "return"
    /\ calls[3].regression = "ctt"

\* C11 as claimed: when run_all_tests is called with regression 'ct', the
\* KPSS test is executed with regression 'c'.
C11_TrendFallsBackToConstant ==
    (op = "run_all_tests" /\ args.regression = "ct" /\ Len(calls) >= 2)
    => calls[2].regression = "c"

\* C11 amended: when run_all_tests is called with regression 'ct' and the
\* ADF test returns, the KPSS test is executed with 'ct' itself; the silent
\* fallback to 'c' is taken only for requests other than 'c' and 'ct'.
C11_TrendIsKept ==
    (op = "run_all_tests" /\ calls[1].out.kind = "return")
    => /\ Len(calls) >= 2
       /\ calls[2].test = "kpss"
       /\ args.regression = "ct" => calls[2].regression = "ct"
       /\ calls[2].regression # args.regression
          => (args.regression \notin {"c", "ct"} /\ calls[2].regression = "c")

\* C11 witness: regression 'ct' is requested and kpss_test is invoked with
\* 'ct' and returns.
C11_Witness ==
    /\ op = "run_all_tests"
    /\ ValidAlpha(args.alpha)
    /\ args.regression = "ct"
    /\ Len(calls) >= 2
    /\ calls[2].test = "kpss"
    /\ calls[2].regression = "ct"
    /\ calls[2].out.kind = "return"

\* C12: with detailed = false, assess_stationarity runs its tests with the
\* regression of the configuration record (one of the four labels, 'c' when
\* absent) and with the alpha of the record (0.05 when absent).
C12_NodeUsesConfiguredRegression ==
    (/\ op = "assess_stationarity"
     /\ ~Get(args.parameters, "detailed", FALSE)
     /\ Get(args.parameters, "regression", "c") \in {"c", "ct", "ctt", "n"})
    => /\ Len(calls) >= 1
       /\ calls[1].regression = Get(args.parameters, "regression", "c")
       /\ calls[1].alpha = Get(args.parameters, "alpha", DefaultAlpha)

\* C14: a test whose p_value equals alpha is judged non-stationary, by the
\* ADF comparison, by the KPSS comparison and by the PP comparison alike;
\* when all three p_values of a run_all_tests result equal alpha,
\* overall_stationary is false.
C14_BoundaryIsNonStationary ==
    /\ \A i \in DOMAIN calls :
          LET c == calls[i]
          IN (c.out.kind = "return" /\ c.out.value.p_value = c.alpha)
             => ~c.out.value.stationary
    /\ (/\ op = "run_all_tests"
        /\ outcome.kind = "return"
        /\ \A t \in {"adf", "kpss", "pp"} :
              outcome.value[t].p_value = args.alpha)
       => ~outcome.value["overall_stationary"]

\* C14 witness: in one run_all_tests adfuller and kpss both return a p_value
\* equal to alpha, and both tests say non-stationary: the KPSS verdict is
\* not the complement of the ADF verdict.
C14_Witness ==
    /\ op = "run_all_tests"
    /\ ValidAlpha(args.alpha)
    /\ Len(calls) >= 2
    /\ calls[1].out.kind = "return" /\ calls[2].out.kind = "return"
    /\ calls[1].out.value.p_value = args.alpha
    /\ calls[2].out.value.p_value = args.alpha
    /\ ~calls[1].out.value.stationary
    /\ ~calls[2].out.value.stationary

====
